---- MODULE Spec2Model ----
(***************************************************************************)
(* Model of contrib/build-wine/docker/wrapper.cpp: the command-line        *)
(* rewriter (ReplaceCommandAndPrependArg) and the launcher (main).         *)
(* Strings are sequences of one-character strings.  The scan position is   *)
(* the 0-based index used by the code; character pos is commandLine[pos+1].*)
(***************************************************************************)
EXTENDS Integers, Sequences, FiniteSets, TLC

\* ---------------------------------------------------------------- bounds
MaxLen == 5

\* ------------------------------------------------------------- constants
EXIT_SUCCESS == 0
EXIT_FAILURE == 1

SP == " "
DQ == "\""
BS == "\\"

Alphabet == {SP, DQ, BS, "a"}

RECURSIVE SeqsOfLen(_)
SeqsOfLen(n) ==
  IF n = 0 THEN {<<>>}
  ELSE {Append(s, c) : s \in SeqsOfLen(n - 1), c \in Alphabet}

\* `orig.exe a b c`
LineOrig == <<"o","r","i","g",".","e","x","e"," ","a"," ","b"," ","c">>
\* `"C:\my app.exe" --flag`
LineQuoted == <<"\"","C",":","\\","m","y"," ","a","p","p",".","e","x","e","\"",
                " ","-","-","f","l","a","g">>

\* the raw command lines GetCommandLineA() may return
CommandLines == UNION {SeqsOfLen(n) : n \in 0..MaxLen} \cup {LineOrig, LineQuoted}

\* PROG, ARG, ARG_POST are fixed at build time
ProgFoo == <<"f","o","o",".","e","x","e">>
ArgMode == <<"-","-","m","o","d","e","=","x">>
ArgDone == <<"-","-","d","o","n","e">>
ArgPosts == {<<>>, ArgDone}

\* exit codes a child can end with, and GetLastError() values.  exit_code and
\* the parameter of ExitProcess are both 32-bit unsigned, so nothing is
\* truncated between them; 2147483647 is the largest value TLC represents.
ExitCodes == {0, 1, 2, 259, 2147483647}
ErrorCodes == {2, 5}

VARIABLES commandLine, prog, arg, argPost,
          pc, pos, in_quot, in_bs, cmdBuf,
          created, pi, closeCalls, d, child, childExit, exit_code,
          cerr, exitStatus

vars == <<commandLine, prog, arg, argPost, pc, pos, in_quot, in_bs, cmdBuf,
          created, pi, closeCalls, d, child, childExit, exit_code,
          cerr, exitStatus>>

inputs == <<commandLine, prog, arg, argPost>>
scanVars == <<pos, in_quot, in_bs>>
procVars == <<created, pi, closeCalls, d, child, childExit, exit_code, cerr, exitStatus>>

\* ------------------------------------------------------------ tokenizer
\* commandLine.substr(pos)
substr(s, p) == SubSeq(s, p + 1, Len(s))

StopHere_IgnoreQuotes(ch, q, b) == ch = SP /\ ~b

StopHere_AnySpace(ch, q, b) == ch = SP

\* the break condition of the loop
StopHere(ch, q, b) == ch = SP /\ ~q /\ ~b

NextFlags_BackslashAnywhere(ch, q, b) ==
  IF ch = BS THEN [in_quot |-> q, in_bs |-> ~b]
  ELSE IF ch = DQ /\ ~b THEN [in_quot |-> ~q, in_bs |-> b]
  ELSE IF b THEN [in_quot |-> q, in_bs |-> FALSE]
  ELSE [in_quot |-> q, in_bs |-> b]

\* the else-if chain of the loop body: the flags after a character that
\* did not break the loop
NextFlags(ch, q, b) ==
  IF ch = BS /\ q THEN [in_quot |-> q, in_bs |-> ~b]
  ELSE IF ch = DQ /\ ~b THEN [in_quot |-> ~q, in_bs |-> b]
  ELSE IF b THEN [in_quot |-> q, in_bs |-> FALSE]
  ELSE [in_quot |-> q, in_bs |-> b]

Rewritten_SkipSeparator(line, newCmd, a, aPost, p) ==
  newCmd \o <<" ">> \o a \o substr(line, p + 1) \o <<" ">> \o aPost

Rewritten_NoPostSeparator(line, newCmd, a, aPost, p) ==
  newCmd \o <<" ">> \o a \o substr(line, p) \o aPost

\* the return expression
Rewritten(line, newCmd, a, aPost, p) ==
  newCmd \o <<" ">> \o a \o substr(line, p) \o <<" ">> \o aPost

\* ------------------------------------------------------ GetErrorMessage
isspace(c) == c \in {" ", "\t", "\n", "\r", "\f"}

RECURSIVE TrimRight(_)
TrimRight(s) ==
  IF s # <<>> /\ isspace(s[Len(s)]) THEN TrimRight(SubSeq(s, 1, Len(s) - 1)) ELSE s

\* what FormatMessageA writes for a code: text ending in a line break
SystemMessage(code) == <<"system message ", ToString(code), ".", "\r", "\n">>

\* fmOk: FormatMessageA returned cchMsg > 0
GetErrorMessage(code, fmOk) ==
  IF fmOk THEN TrimRight(SystemMessage(code))
  ELSE <<"Error code (", ToString(code), ")">>

\* ------------------------------------------------------------------ Init
Init ==
  /\ commandLine \in CommandLines
  /\ prog = ProgFoo
  /\ arg = ArgMode
  /\ argPost \in ArgPosts
  /\ pc = "scan"
  /\ pos = 0
  /\ in_quot = FALSE
  /\ in_bs = FALSE
  /\ cmdBuf = <<>>
  /\ created = 0
  /\ pi = [hProcess |-> "null", hThread |-> "null"]
  /\ closeCalls = [hProcess |-> 0, hThread |-> 0]
  /\ d = FALSE
  /\ child = "none"
  /\ childExit = -1
  /\ exit_code = -1
  /\ cerr = <<>>
  /\ exitStatus = -1

\* --------------------------------------------- ReplaceCommandAndPrependArg
\* one iteration of the for loop that does not break
ScanChar ==
  /\ pc = "scan"
  /\ pos < Len(commandLine)
  /\ ~StopHere(commandLine[pos + 1], in_quot, in_bs)
  /\ in_quot' = NextFlags(commandLine[pos + 1], in_quot, in_bs).in_quot
  /\ in_bs' = NextFlags(commandLine[pos + 1], in_quot, in_bs).in_bs
  /\ pos' = pos + 1
  /\ UNCHANGED <<inputs, pc, cmdBuf, procVars>>

\* the loop ends (break, or pos reached the size) and the result is built
ScanReturn ==
  /\ pc = "scan"
  /\ IF pos < Len(commandLine)
       THEN StopHere(commandLine[pos + 1], in_quot, in_bs)
       ELSE TRUE
  /\ cmdBuf' = Rewritten(commandLine, prog, arg, argPost, pos)
  /\ pc' = "create"
  /\ UNCHANGED <<inputs, scanVars, procVars>>

\* ------------------------------------------------------------------ main
\* the body of the scope-exit guard d
DeferBody(calls) ==
  [calls EXCEPT !.hProcess = @ + 1, !.hThread = @ + 1]

CreateProcessOk ==
  /\ pc = "create"
  /\ created' = created + 1
  /\ pi' = [hProcess |-> "open", hThread |-> "open"]
  /\ child' = "running"
  /\ pc' = "wait"
  /\ UNCHANGED <<inputs, scanVars, cmdBuf, closeCalls, d, childExit, exit_code,
                 cerr, exitStatus>>

CreateProcessFail_NoProgram ==
  /\ pc = "create"
  /\ created' = created + 1
  /\ \E e \in ErrorCodes, fmOk \in BOOLEAN :
       cerr' = Append(cerr, <<"CreateProcess failed: ">> \o GetErrorMessage(e, fmOk))
  /\ exitStatus' = EXIT_FAILURE
  /\ pc' = "terminated"
  /\ UNCHANGED <<inputs, scanVars, cmdBuf, pi, closeCalls, d, child, childExit,
                 exit_code>>

CreateProcessFail ==
  /\ pc = "create"
  /\ created' = created + 1
  /\ \E e \in ErrorCodes, fmOk \in BOOLEAN :
       cerr' = Append(cerr, <<"CreateProcess failed for \"">> \o prog \o <<"\": ">>
                              \o GetErrorMessage(e, fmOk))
  /\ exitStatus' = EXIT_FAILURE
  /\ pc' = "terminated"
  /\ UNCHANGED <<inputs, scanVars, cmdBuf, pi, closeCalls, d, child, childExit,
                 exit_code>>

\* the child program ends on its own with some exit code
ChildExit ==
  /\ child = "running"
  /\ child' = "exited"
  /\ \E n \in ExitCodes : childExit' = n
  /\ UNCHANGED <<inputs, scanVars, pc, cmdBuf, created, pi, closeCalls, d,
                 exit_code, cerr, exitStatus>>

WaitForSingleObject_Timeout ==
  /\ pc = "wait"
  /\ d' = TRUE
  /\ pc' = "getexit"
  /\ UNCHANGED <<inputs, scanVars, cmdBuf, created, pi, closeCalls, child,
                 childExit, exit_code, cerr, exitStatus>>

\* WaitForSingleObject(pi.hProcess, INFINITE) returns once the process object
\* is signaled; then the guard d is constructed
WaitForSingleObject ==
  /\ pc = "wait"
  /\ child = "exited"
  /\ d' = TRUE
  /\ pc' = "getexit"
  /\ UNCHANGED <<inputs, scanVars, cmdBuf, created, pi, closeCalls, child,
                 childExit, exit_code, cerr, exitStatus>>

GetExitCodeProcessOk ==
  /\ pc = "getexit"
  /\ exit_code' = childExit
  /\ pc' = "exitprocess"
  /\ UNCHANGED <<inputs, scanVars, cmdBuf, created, pi, closeCalls, d, child,
                 childExit, cerr, exitStatus>>

GetExitCodeProcessFail_ExitProcess ==
  /\ pc = "getexit"
  /\ \E e \in ErrorCodes, fmOk \in BOOLEAN :
       cerr' = Append(cerr, <<"Could not retrieve exit code for subprocess: ">>
                              \o GetErrorMessage(e, fmOk))
  /\ exitStatus' = EXIT_FAILURE
  /\ pc' = "terminated"
  /\ UNCHANGED <<inputs, scanVars, cmdBuf, created, pi, closeCalls, d, child,
                 childExit, exit_code>>

\* GetExitCodeProcess fails: message, return EXIT_FAILURE; leaving main's
\* scope runs ~Defer
GetExitCodeProcessFail ==
  /\ pc = "getexit"
  /\ \E e \in ErrorCodes, fmOk \in BOOLEAN :
       cerr' = Append(cerr, <<"Could not retrieve exit code for subprocess: ">>
                              \o GetErrorMessage(e, fmOk))
  /\ closeCalls' = IF d THEN DeferBody(closeCalls) ELSE closeCalls
  /\ pi' = IF d THEN [hProcess |-> "closed", hThread |-> "closed"] ELSE pi
  /\ d' = FALSE
  /\ exitStatus' = EXIT_FAILURE
  /\ pc' = "terminated"
  /\ UNCHANGED <<inputs, scanVars, cmdBuf, created, child, childExit, exit_code>>

ExitProcess_ReturnSuccess ==
  /\ pc = "exitprocess"
  /\ closeCalls' = IF d THEN DeferBody(closeCalls) ELSE closeCalls
  /\ pi' = IF d THEN [hProcess |-> "closed", hThread |-> "closed"] ELSE pi
  /\ d' = FALSE
  /\ exitStatus' = EXIT_SUCCESS
  /\ pc' = "terminated"
  /\ UNCHANGED <<inputs, scanVars, cmdBuf, created, child, childExit, exit_code, cerr>>

\* ExitProcess(exit_code) ends the process at once: it does not return and
\* main's scope is never left, so no destructor of main's locals runs
ExitProcess ==
  /\ pc = "exitprocess"
  /\ exitStatus' = exit_code
  /\ pc' = "terminated"
  /\ UNCHANGED <<inputs, scanVars, cmdBuf, created, pi, closeCalls, d, child,
                 childExit, exit_code, cerr>>

Next ==
  \/ ScanChar
  \/ ScanReturn
  \/ CreateProcessOk
  \/ CreateProcessFail
  \/ ChildExit
  \/ WaitForSingleObject
  \/ GetExitCodeProcessOk
  \/ GetExitCodeProcessFail
  \/ ExitProcess

Spec == Init /\ [][Next]_vars

\* ===================================================== tokenizer properties
\* the flags the scan holds on reaching 0-based position i when no earlier
\* character stopped it
RECURSIVE FlagsAt(_, _)
FlagsAt(line, i) ==
  IF i = 0 THEN [in_quot |-> FALSE, in_bs |-> FALSE]
  ELSE LET prev == FlagsAt(line, i - 1)
       IN NextFlags(line[i], prev.in_quot, prev.in_bs)

\* positions holding a space while both flags are false
SplitPoints(line) ==
  {i \in 0..(Len(line) - 1) :
     line[i + 1] = SP /\ ~FlagsAt(line, i).in_quot /\ ~FlagsAt(line, i).in_bs}

Min(S) == CHOOSE x \in S : \A y \in S : x <= y

\* the part of the rewritten command line between the leading argument and
\* the separator of the trailing argument
TailOf(buf) ==
  SubSeq(buf, Len(prog) + 1 + Len(arg) + 1, Len(buf) - (1 + Len(argPost)))

Scanned == pc # "scan"

HasSpace(s) == \E i \in 1..Len(s) : s[i] = SP

\* C1: the tail is the suffix of the raw command line from the first space
\* met with both flags false, and empty when there is no such position; when
\* the first token holds no space, first token + tail is the raw command line
\* and the tail starts at the first space of the line.
C1_TailIsSuffixAtFirstFreeSpace ==
  Scanned =>
    LET points == SplitPoints(commandLine)
        tail == TailOf(cmdBuf)
        head == SubSeq(commandLine, 1, Len(commandLine) - Len(tail))
    IN /\ points # {} => tail = substr(commandLine, Min(points))
       /\ points = {} => tail = <<>>
       /\ ~HasSpace(head) =>
            /\ head \o tail = commandLine
            /\ tail = <<>> \/ tail[1] = SP
            /\ HasSpace(commandLine) =>
                 tail = substr(commandLine,
                               Min({i \in 0..(Len(commandLine) - 1) :
                                      commandLine[i + 1] = SP}))

\* a space was skipped inside quotes and a later one split the line
C1_Witness ==
  /\ Scanned
  /\ pos < Len(commandLine)
  /\ \E i \in 1..pos : commandLine[i] = SP
  /\ TailOf(cmdBuf) # <<>>

\* `foo.exe --mode=x a b c --done`
LineDone == <<"f","o","o",".","e","x","e"," ","-","-","m","o","d","e","=","x",
              " ","a"," ","b"," ","c"," ","-","-","d","o","n","e">>

\* C6: the rewritten command line is program, space, leading argument, the
\* tail unmodified, space, trailing argument; `orig.exe a b c` with `--done`
\* gives `foo.exe --mode=x a b c --done`.
C6_RewrittenIsConcatenation ==
  Scanned =>
    LET points == SplitPoints(commandLine)
        tail == IF points = {} THEN <<>> ELSE substr(commandLine, Min(points))
    IN /\ Len(cmdBuf) = Len(prog) + 1 + Len(arg) + Len(tail) + 1 + Len(argPost)
       /\ SubSeq(cmdBuf, 1, Len(prog)) = prog
       /\ cmdBuf[Len(prog) + 1] = SP
       /\ SubSeq(cmdBuf, Len(prog) + 2, Len(prog) + 1 + Len(arg)) = arg
       /\ TailOf(cmdBuf) = tail
       /\ cmdBuf[Len(cmdBuf) - Len(argPost)] = SP
       /\ SubSeq(cmdBuf, Len(cmdBuf) - Len(argPost) + 1, Len(cmdBuf)) = argPost
       /\ (commandLine = LineOrig /\ argPost = ArgDone) => cmdBuf = LineDone

C6_Witness == Scanned /\ commandLine = LineOrig /\ argPost = ArgDone /\ cmdBuf = LineDone

\* the quote that closes the quotes opened by the first character: the first
\* later quote character that does not follow a pending backslash
ClosingQuotes(line) ==
  {i \in 1..(Len(line) - 1) : line[i + 1] = DQ /\ ~FlagsAt(line, i).in_bs}

\* the first token is a quoted string with a space inside the quotes: the line
\* opens with a quote, the quote is closed, a space lies in between, and the
\* token does not open quotes again before it ends
QuotedFirstToken(line) ==
  /\ Len(line) > 0 /\ line[1] = DQ
  /\ ClosingQuotes(line) # {}
  /\ LET k == Min(ClosingQuotes(line))
     IN /\ \E i \in 1..(k - 1) : line[i + 1] = SP
        /\ \A i \in (k + 1)..(Len(line) - 1) :
             line[i + 1] = DQ => \E j \in (k + 1)..(i - 1) : line[j + 1] = SP

FirstSpaceAfter(line, k) ==
  IF \E i \in (k + 1)..(Len(line) - 1) : line[i + 1] = SP
  THEN Min({i \in (k + 1)..(Len(line) - 1) : line[i + 1] = SP})
  ELSE Len(line)

\* ` --flag`
TailFlag == <<" ","-","-","f","l","a","g">>

\* C7: the scan never stops at a space inside quotes; for a quoted first
\* token with spaces inside the quotes the split point is the first space
\* after the closing quote; `"C:\my app.exe" --flag` has the tail ` --flag`.
C7_NoSplitInsideQuotes ==
  Scanned =>
    /\ pos < Len(commandLine) =>
         /\ commandLine[pos + 1] = SP
         /\ ~FlagsAt(commandLine, pos).in_quot
    /\ QuotedFirstToken(commandLine) =>
         LET k == Min(ClosingQuotes(commandLine))
         IN /\ pos > k
            /\ pos = FirstSpaceAfter(commandLine, k)
            /\ TailOf(cmdBuf) = substr(commandLine, FirstSpaceAfter(commandLine, k))
    /\ commandLine = LineQuoted => TailOf(cmdBuf) = TailFlag

C7_Witness ==
  /\ Scanned
  /\ commandLine = LineQuoted
  /\ QuotedFirstToken(commandLine)
  /\ TailOf(cmdBuf) = TailFlag

\* `foo.exe --mode=x a b c`
LineNoPost == <<"f","o","o",".","e","x","e"," ","-","-","m","o","d","e","=","x",
                " ","a"," ","b"," ","c">>

\* C8 as stated: with no trailing argument, `orig.exe a b c` is rewritten to
\* exactly `foo.exe --mode=x a b c`, nothing following the tail.
C8_Original ==
  (Scanned /\ commandLine = LineOrig /\ argPost = <<>>) => cmdBuf = LineNoPost

\* C8 amended: with an empty trailing argument, `orig.exe a b c` is rewritten
\* to `foo.exe --mode=x a b c` followed by the one separator space that
\* always precedes the trailing argument.
C8_TrailingSeparatorKept ==
  (Scanned /\ commandLine = LineOrig /\ argPost = <<>>) =>
    cmdBuf = LineNoPost \o <<" ">>

C8_Witness ==
  /\ Scanned /\ commandLine = LineOrig /\ argPost = <<>>
  /\ Len(cmdBuf) = Len(LineNoPost) + 1

\* C10: during the scan in_bs implies in_quot; a quote read while in_bs is
\* set leaves in_quot set; and the loop stops at a character exactly when the
\* character is a space and in_quot is false.
C10_EscapeOnlyInsideQuotes ==
  /\ [](pc = "scan" => (in_bs => in_quot))
  /\ [](pc = "scan" /\ pos < Len(commandLine) =>
          (StopHere(commandLine[pos + 1], in_quot, in_bs)
             <=> (commandLine[pos + 1] = SP /\ ~in_quot)))
  /\ [][(pc = "scan" /\ pos < Len(commandLine) /\ in_bs
           /\ commandLine[pos + 1] = DQ /\ pos' = pos + 1)
          => (in_quot /\ in_quot' /\ ~in_bs')]_vars

\* the scan stands on a quote right after an unconsumed backslash
C10_Witness ==
  /\ pc = "scan" /\ in_bs /\ in_quot
  /\ pos < Len(commandLine) /\ commandLine[pos + 1] = DQ

\* ====================================================== launcher properties
Terminated == pc = "terminated"

\* s occurs in t as a contiguous run
Contains(t, s) == \E i \in 0..(Len(t) - Len(s)) : SubSeq(t, i + 1, i + Len(s)) = s

ErrorMessages == {GetErrorMessage(e, fmOk) : e \in ErrorCodes, fmOk \in BOOLEAN}

\* C2: when the child was created, ended with code N and the code was
\* retrieved, the parent ends with exactly N, whatever N is.
C2_ExitCodePropagated ==
  (Terminated /\ child = "exited" /\ exit_code # -1) =>
    /\ exit_code = childExit
    /\ exitStatus = childExit

\* a code that is neither EXIT_SUCCESS nor EXIT_FAILURE went through
C2_Witness ==
  /\ Terminated /\ child = "exited" /\ exit_code # -1
  /\ childExit = 259 /\ exitStatus = 259

\* C3: on every exit of main after the child was created, the guard has
\* closed the process handle and the thread handle exactly once each.
C3_HandlesClosedOnce ==
  (Terminated /\ child # "none") =>
    /\ closeCalls.hProcess = 1
    /\ closeCalls.hThread = 1

\* C4: when process creation fails, standard error holds one diagnostic with
\* the program path in it, the parent ends with EXIT_FAILURE (non-zero), and
\* no wait, no exit-code read and no handle close has happened.
C4_CreationFailure ==
  (Terminated /\ child = "none") =>
    /\ Len(cerr) = 1
    /\ Contains(cerr[1], prog)
    /\ \E m \in ErrorMessages :
         cerr[1] = <<"CreateProcess failed for \"">> \o prog \o <<"\": ">> \o m
    /\ exitStatus = EXIT_FAILURE
    /\ exitStatus # 0
    /\ d = FALSE
    /\ exit_code = -1
    /\ closeCalls = [hProcess |-> 0, hThread |-> 0]
    /\ pi = [hProcess |-> "null", hThread |-> "null"]

C4_Witness ==
  /\ Terminated /\ child = "none" /\ created = 1
  /\ Len(cerr) = 1 /\ Contains(cerr[1], prog)

\* C5: when the child was created and its exit status cannot be read, the
\* parent writes `Could not retrieve exit code for subprocess: <message>`,
\* ends with EXIT_FAILURE, and both handles of the child are closed.
C5_RetrievalFailure ==
  (Terminated /\ child = "exited" /\ exit_code = -1) =>
    /\ Len(cerr) = 1
    /\ \E m \in ErrorMessages :
         cerr[1] = <<"Could not retrieve exit code for subprocess: ">> \o m
    /\ exitStatus = EXIT_FAILURE
    /\ exitStatus # 0
    /\ closeCalls = [hProcess |-> 1, hThread |-> 1]
    /\ pi = [hProcess |-> "closed", hThread |-> "closed"]

\* the retrieval failed for a child that ended with another code than
\* EXIT_FAILURE
C5_Witness ==
  /\ Terminated /\ child = "exited" /\ exit_code = -1
  /\ childExit = 0 /\ exitStatus = EXIT_FAILURE
  /\ closeCalls.hProcess = 1

\* Parsing = 1, Launched = 2, Terminated = 3
Phase(p) ==
  IF p \in {"scan", "create"} THEN 1
  ELSE IF p \in {"wait", "getexit", "exitprocess"} THEN 2
  ELSE 3

\* C9: process creation is attempted once at most and exactly once in a run
\* that ends; after a successful creation the parent reads the exit code and
\* ends only when the child has ended; the phases never go backward.
C9_OneChildWaitedFor ==
  /\ [](created <= 1)
  /\ [](Phase(pc) > 1 => created = 1)
  /\ []((pc \in {"getexit", "exitprocess"} \/ exit_code # -1) => child = "exited")
  /\ []((Terminated /\ child # "none") => child = "exited")
  /\ [][Phase(pc') >= Phase(pc)]_vars
  /\ [][created' # created => pc = "create"]_vars
  /\ [][(pc = "wait" /\ pc' # "wait") => child = "exited"]_vars

\* the parent is blocked in the wait while the child still runs
C9_Witness == pc = "wait" /\ child = "running" /\ created = 1

TypeOK ==
  /\ pc \in {"scan", "create", "wait", "getexit", "exitprocess", "terminated"}
  /\ pos \in 0..Len(commandLine)
  /\ in_quot \in BOOLEAN /\ in_bs \in BOOLEAN
  /\ child \in {"none", "running", "exited"}
====
